---- MODULE Spec2Model ----
(***************************************************************************)
(* nimbus-agent: the container runner of src/src/main.rs.                  *)
(*                                                                         *)
(* A request handler (run_container) drives the docker daemon through      *)
(* list -> create-if-absent -> start and converts every engine error into  *)
(* a ContainerRunError.  Every .await on the daemon is a suspension point, *)
(* so one action models one engine round trip of one request.              *)
(*                                                                         *)
(* Text is a sequence of one-character strings, so that lower-casing,      *)
(* substring search, concatenation and exact name comparison are computed  *)
(* the way the code computes them.                                         *)
(***************************************************************************)
EXTENDS Integers, Sequences, FiniteSets, TLC

VARIABLES
    containers,    \* the daemon's container list, in list order
    unique,        \* whether this daemon rejects a create for a taken name
    pc,            \* per request slot: position inside run_container
    conf,          \* per request slot: the ContainerConfiguration of the call
    container_id,  \* per request slot: the local container_id (Option)
    result,        \* per request slot: the value run_container returned (Option)
    calls,         \* per request slot: the engine calls of the current invocation
    runs,          \* per request slot: number of invocations so far
    engine0,       \* history: the daemon's container list when the agent started
    overlap,       \* history: two requests with one name have been in flight at once
    convErr,       \* input of the error conversion (Option)
    convOut,       \* output of the error conversion (Option)
    createConf,    \* input of the create-argument translation (Option)
    createOut      \* output of the create-argument translation (Option)

vars == <<containers, unique, pc, conf, container_id, result, calls, runs,
          engine0, overlap, convErr, convOut, createConf, createOut>>

runnerVars == <<containers, unique, pc, conf, container_id, result, calls, runs,
                engine0, overlap>>
convVars   == <<convErr, convOut>>
createVars == <<createConf, createOut>>

----------------------------------------------------------------------------
(* Option<T>, Result<T, E> *)

None == [some |-> FALSE]
Some(x) == [some |-> TRUE, val |-> x]

Ok(x) == [ok |-> TRUE, val |-> x]
Err(e) == [ok |-> FALSE, err |-> e]

Unit == <<>>

----------------------------------------------------------------------------
(* Bounds of the model *)

MaxRuns == 2          \* invocations of run_container served in all

Procs == {"r1", "r2"} \* concurrently served requests

----------------------------------------------------------------------------
(* Text *)

UpperCase == <<"A","B","C","D","E","F","G","H","I","J","K","L","M",
               "N","O","P","Q","R","S","T","U","V","W","X","Y","Z">>
LowerCase == <<"a","b","c","d","e","f","g","h","i","j","k","l","m",
               "n","o","p","q","r","s","t","u","v","w","x","y","z">>

\* char::to_lowercase on the ASCII range
to_lowercase_char(c) ==
    IF \E i \in 1..26 : UpperCase[i] = c
    THEN LowerCase[CHOOSE i \in 1..26 : UpperCase[i] = c]
    ELSE c

\* str::to_lowercase
to_lowercase(s) == [i \in 1..Len(s) |-> to_lowercase_char(s[i])]

\* str::contains(&str)
contains(s, pat) ==
    \E i \in 0..(Len(s) - Len(pat)) : SubSeq(s, i + 1, i + Len(pat)) = pat

PermissionDeniedPattern ==
    <<"p","e","r","m","i","s","s","i","o","n"," ","d","e","n","i","e","d">>

----------------------------------------------------------------------------
(* Engine errors (bollard::errors::Error), as far as the conversion reads   *)
(* them: the kind, the rendered text of the top-level error, and the error  *)
(* nested in the kind (for HyperResponseError the hyper error `err`) with   *)
(* its own rendered text and its optional source; a source has a rendered   *)
(* text and a description().                                                *)

TxtConnectPermissionDenied ==  \* "connect: permission denied"
    <<"c","o","n","n","e","c","t",":"," ","p","e","r","m","i","s","s","i","o","n"," ","d","e","n","i","e","d">>

TxtOsPermissionDenied ==  \* "Permission denied (os error 13)"
    <<"P","e","r","m","i","s","s","i","o","n"," ","d","e","n","i","e","d"," ","(","o","s"," ","e","r","r","o","r"," ","1","3",")">>

TxtUpperPermissionDenied ==  \* "PERMISSION DENIED"
    <<"P","E","R","M","I","S","S","I","O","N"," ","D","E","N","I","E","D">>

TxtMixedPermissionDenied ==  \* "xPermission DeniedY"
    <<"x","P","e","r","m","i","s","s","i","o","n"," ","D","e","n","i","e","d","Y">>

TxtTwoSpaces ==  \* "permission  denied"
    <<"p","e","r","m","i","s","s","i","o","n"," "," ","d","e","n","i","e","d">>

TxtNoSpace ==  \* "permissiondenied"
    <<"p","e","r","m","i","s","s","i","o","n","d","e","n","i","e","d">>

TxtConnectionRefused ==  \* "connection refused"
    <<"c","o","n","n","e","c","t","i","o","n"," ","r","e","f","u","s","e","d">>

TxtTruncated ==  \* "permission denie"
    <<"p","e","r","m","i","s","s","i","o","n"," ","d","e","n","i","e">>

TxtDescPermissionDenied ==  \* "permission denied"
    <<"p","e","r","m","i","s","s","i","o","n"," ","d","e","n","i","e","d">>

TxtDescDeprecated ==  \* "description() is deprecated"
    <<"d","e","s","c","r","i","p","t","i","o","n","(",")"," ","i","s"," ","d","e","p","r","e","c","a","t","e","d">>

TxtTopHyper ==  \* "error trying to connect"
    <<"e","r","r","o","r"," ","t","r","y","i","n","g"," ","t","o"," ","c","o","n","n","e","c","t">>

TxtTopPermission ==  \* "io: permission denied"
    <<"i","o",":"," ","p","e","r","m","i","s","s","i","o","n"," ","d","e","n","i","e","d">>

TxtTopServer ==  \* "Docker responded with status code 500"
    <<"D","o","c","k","e","r"," ","r","e","s","p","o","n","d","e","d"," ","w","i","t","h"," ","s","t","a","t","u","s"," ","c","o","d","e"," ","5","0","0">>

TxtInnerConnect ==  \* "error trying to connect"
    <<"e","r","r","o","r"," ","t","r","y","i","n","g"," ","t","o"," ","c","o","n","n","e","c","t">>

TxtInnerPermission ==  \* "Permission Denied"
    <<"P","e","r","m","i","s","s","i","o","n"," ","D","e","n","i","e","d">>

TxtConflict ==  \* "name already in use"
    <<"n","a","m","e"," ","a","l","r","e","a","d","y"," ","i","n"," ","u","s","e">>

ErrorKinds == {"HyperResponseError", "IOError", "DockerResponseServerError",
               "DockerResponseConflictError"}

TopTexts == {TxtTopHyper, TxtTopPermission, TxtTopServer, TxtConflict}

InnerTexts == {TxtInnerConnect, TxtInnerPermission, TxtConflict}

CauseTexts == {TxtConnectPermissionDenied, TxtOsPermissionDenied,
               TxtUpperPermissionDenied, TxtMixedPermissionDenied,
               TxtTwoSpaces, TxtNoSpace, TxtConnectionRefused, TxtTruncated}

Descriptions == {TxtDescPermissionDenied, TxtDescDeprecated}

Sources ==
    {None} \cup {Some([text |-> t, description |-> d]) :
                    t \in CauseTexts, d \in Descriptions}

\* every engine error the conversion is tried on
Errors ==
    {[kind |-> k, text |-> t, err |-> [text |-> it, source |-> s]] :
        k \in ErrorKinds, t \in TopTexts, it \in InnerTexts, s \in Sources}

StartFailureReason ==
    {"StoragePathDNE", "ImageDNE", "PortBindFailure", "PermissionDenied", "Other"}

ContainerRunError(reason, message) == [message |-> message, reason |-> reason]

\* the test of line 59 without the lower-casing
is_permission_denied_cased(e) ==
    contains(e.text, PermissionDeniedPattern)

\* the test of line 59 on a source e
is_permission_denied(e) ==
    contains(to_lowercase(e.text), PermissionDeniedPattern)

\* the conversion with the description used as the message in every source arm
ContainerRunError_from_description(err) ==
    IF err.kind = "HyperResponseError"
    THEN LET e == err.err IN
         IF e.source.some
         THEN LET s == e.source.val IN
              IF is_permission_denied(s)
              THEN ContainerRunError("PermissionDenied", s.description)
              ELSE ContainerRunError("Other", s.description)
         ELSE ContainerRunError("Other", e.text)
    ELSE ContainerRunError("Other", err.text)

\* the conversion with a first use of another declared reason
ContainerRunError_from_image(err) ==
    IF err.kind = "HyperResponseError"
    THEN LET e == err.err IN
         IF e.source.some
         THEN LET s == e.source.val IN
              IF is_permission_denied(s)
              THEN ContainerRunError("PermissionDenied", s.description)
              ELSE ContainerRunError("Other", s.text)
         ELSE ContainerRunError("Other", e.text)
    ELSE ContainerRunError("ImageDNE", err.text)

\* the conversion rendering the top-level error when there is no source
ContainerRunError_from_toplevel(err) ==
    IF err.kind = "HyperResponseError"
    THEN LET e == err.err IN
         IF e.source.some
         THEN LET s == e.source.val IN
              IF is_permission_denied(s)
              THEN ContainerRunError("PermissionDenied", s.description)
              ELSE ContainerRunError("Other", s.text)
         ELSE ContainerRunError("Other", err.text)
    ELSE ContainerRunError("Other", err.text)

\* the conversion reading the source of an error of any kind
ContainerRunError_from_anykind(err) ==
    LET e == err.err IN
    IF e.source.some
    THEN LET s == e.source.val IN
         IF is_permission_denied(s)
         THEN ContainerRunError("PermissionDenied", s.description)
         ELSE ContainerRunError("Other", s.text)
    ELSE ContainerRunError("Other", err.text)

\* impl From<bollard::errors::Error> for ContainerRunError
ContainerRunError_from(err) ==
    IF err.kind = "HyperResponseError"
    THEN LET e == err.err IN
         IF e.source.some
         THEN LET s == e.source.val IN
              IF is_permission_denied(s)
              THEN ContainerRunError("PermissionDenied", s.description)
              ELSE ContainerRunError("Other", s.text)
         ELSE ContainerRunError("Other", e.text)
    ELSE ContainerRunError("Other", err.text)

----------------------------------------------------------------------------
(* ContainerConfiguration and the translation of create_container           *)

Images == {<<"i","1">>, <<"i","2">>}

Names == {<<"a">>, <<"a","b">>}

\* ContainerStorageConfiguration
StorageMount(host, local, ro) == [host |-> host, local |-> local, ro |-> ro]

\* ContainerConfiguration
ContainerConfiguration(image, name, hostname, domain, ports, storage, environment) ==
    [image |-> image, name |-> name, hostname |-> hostname, domain |-> domain,
     ports |-> ports, storage |-> storage, environment |-> environment]

\* the orders in which HashMap::iter may yield the keys of hm
IterOrders(hm) ==
    LET K == DOMAIN hm
        n == Cardinality(K)
    IN {s \in [1..n -> K] : \A k \in K : \E i \in 1..n : s[i] = k}

\* format!("{}={}", k, v)
format_env(k, v) == k \o <<"=">> \o v

\* the fold of lines 157-164 joining host and local with a path separator
RECURSIVE fold_binds_join(_, _)
fold_binds_join(storage, v) ==
    IF storage = <<>> THEN v
    ELSE LET vol == Head(storage)
             host_path == vol.host \o <<"/">> \o vol.local
             bind == IF vol.ro THEN host_path \o <<":","r","o">> ELSE host_path
         IN fold_binds_join(Tail(storage), Append(v, bind))

\* the fold of lines 157-164 over the storage vector
RECURSIVE fold_binds(_, _)
fold_binds(storage, v) ==
    IF storage = <<>> THEN v
    ELSE LET vol == Head(storage)
             host_path == vol.host \o vol.local
             bind == IF vol.ro THEN host_path \o <<":","r","o">> ELSE host_path
         IN fold_binds(Tail(storage), Append(v, bind))

\* lines 155-167
host_config(c) ==
    IF c.storage.some
    THEN Some([binds |-> Some(fold_binds(c.storage.val, <<>>))])
    ELSE None

\* lines 170-179 with the last entry of the map left out
env_list_short(c, order) ==
    IF c.environment.some
    THEN LET hm == c.environment.val
         IN Some([i \in 1..(Len(order) - 1) |-> format_env(order[i], hm[order[i]])])
    ELSE None

\* lines 170-179; order is the iteration order of the map
env_list(c, order) ==
    IF c.environment.some
    THEN LET hm == c.environment.val
         IN Some([i \in 1..Len(order) |-> format_env(order[i], hm[order[i]])])
    ELSE None

\* create_container with the ports handed on as exposed ports
create_container_ports(c, order) ==
    [options |-> Some([name |-> c.name]),
     config  |-> [image      |-> Some(c.image),
                  env        |-> env_list(c, order),
                  domainname |-> c.domain,
                  hostname   |-> c.hostname,
                  host_config |-> host_config(c),
                  exposed_ports |-> c.ports]]

\* the arguments create_container passes to Docker::create_container
create_container(c, order) ==
    [options |-> Some([name |-> c.name]),
     config  |-> [image      |-> Some(c.image),
                  env        |-> env_list(c, order),
                  domainname |-> c.domain,
                  hostname   |-> c.hostname,
                  host_config |-> host_config(c)]]

\* the iteration orders available for configuration c
ConfOrders(c) ==
    IF c.environment.some THEN IterOrders(c.environment.val) ELSE {<<>>}

----------------------------------------------------------------------------
(* The daemon: list, create, start over its container list                  *)

Container(id, names, image, running) ==
    [id |-> id, names |-> names, image |-> image, running |-> running]

\* the name the daemon lists a container created as `name` under
EngineName(name) == <<"/">> \o name

Ids(cs) == {cs[i].id : i \in 1..Len(cs)}

NameTaken(cs, name) == \E i \in 1..Len(cs) : EngineName(name) \in cs[i].names

\* the daemon's list: every container with all, the running ones without
EngineList(cs, arg) ==
    IF arg.all THEN cs ELSE SelectSeq(cs, LAMBDA c : c.running)

\* the daemon's create: a new, stopped container with a fresh id
EngineCreate(cs, args) ==
    Append(cs, Container(Len(cs) + 1, {EngineName(args.options.val.name)},
                         args.config.image.val, FALSE))

\* the daemon's start
EngineStart(cs, id) ==
    [i \in 1..Len(cs) |-> IF cs[i].id = id THEN [cs[i] EXCEPT !.running = TRUE]
                          ELSE cs[i]]

----------------------------------------------------------------------------
(* DockerRunner                                                             *)

\* find_container with the leading "/" forgotten
find_container_noslash(list_results, c) ==
    LET name == c.name
        hits == {i \in 1..Len(list_results) : name \in list_results[i].names}
    IN IF hits = {} THEN None
       ELSE Some(list_results[CHOOSE i \in hits : \A j \in hits : i <= j].id)

\* find_container matching any listed name that starts with "/" + name
find_container_prefix(list_results, c) ==
    LET name == <<"/">> \o c.name
        hits == {i \in 1..Len(list_results) :
                    \E n \in list_results[i].names :
                        Len(n) >= Len(name) /\ SubSeq(n, 1, Len(name)) = name}
    IN IF hits = {} THEN None
       ELSE Some(list_results[CHOOSE i \in hits : \A j \in hits : i <= j].id)

\* find_container taking the last match instead of the first
find_container_last(list_results, c) ==
    LET name == <<"/">> \o c.name
        hits == {i \in 1..Len(list_results) : name \in list_results[i].names}
    IN IF hits = {} THEN None
       ELSE Some(list_results[CHOOSE i \in hits : \A j \in hits : i >= j].id)

\* find_container on a successful list result
find_container(list_results, c) ==
    LET name == <<"/">> \o c.name
        hits == {i \in 1..Len(list_results) : name \in list_results[i].names}
    IN IF hits = {} THEN None
       ELSE Some(list_results[CHOOSE i \in hits : \A j \in hits : i <= j].id)

\* lines 145-147: find_container hands a list error on as it is
find_container_err(err) == err

\* lines 195-198 with the result of the find ignored
after_find_always_create(found) == [pc |-> "create", id |-> None]

\* lines 195-198: where run_container goes after a successful find
after_find(found) ==
    IF found.some THEN [pc |-> "start", id |-> found]
    ELSE [pc |-> "create", id |-> None]

\* line 197 taking the id of the container listed before the new one
after_create_stale(results) == [pc |-> "start", id |-> Some(results.id - 1)]

\* line 197: the id taken from CreateContainerResults
after_create(results) == [pc |-> "start", id |-> Some(results.id)]

\* the `?` replaced by swallowing the error
propagate_swallow(err) == Some(Ok(Unit))

\* the `?` of lines 192, 197, 199: convert and return
propagate(err) == Some(Err(ContainerRunError_from(err)))

Call(op, arg, res) == [op |-> op, arg |-> arg, res |-> res]

----------------------------------------------------------------------------
(* Inputs of the runner                                                     *)

TxtHost == <<"h">>
TxtDomain == <<"d">>
TxtDataPath == <<"/","d">>
TxtAppPath == <<"/","l">>

BaseConf(name, image) ==
    ContainerConfiguration(image, name, None, None, None, None, None)

FullConf(name, image) ==
    ContainerConfiguration(image, name, Some(TxtHost), Some(TxtDomain), Some(<<80>>),
        Some(<<StorageMount(TxtDataPath, TxtAppPath, TRUE)>>),
        Some([k \in {<<"A">>, <<"B">>} |-> IF k = <<"A">> THEN <<"1">> ELSE <<"2">>]))

\* the configurations requests carry
RunConfs ==
    {BaseConf(n, <<"i","1">>) : n \in Names} \cup {FullConf(<<"a">>, <<"i","2">>)}

\* the engine errors a daemon call may fail with
EngineErrors ==
    {e \in Errors :
        /\ e.text = TxtTopServer
        /\ e.err.text = TxtInnerConnect
        /\ \/ ~e.err.source.some
           \/ /\ e.err.source.val.description = TxtDescPermissionDenied
              /\ e.err.source.val.text = TxtOsPermissionDenied
        /\ e.kind \in {"HyperResponseError", "IOError"}
        /\ (e.kind = "IOError" => e.err.source.some
                                  /\ e.err.source.val.text = TxtOsPermissionDenied)}

\* the error a daemon with unique names answers a create for a taken name with
RejectionError ==
    [kind |-> "DockerResponseConflictError", text |-> TxtConflict,
     err |-> [text |-> TxtConflict, source |-> None]]

\* the container lists the daemon may hold when the agent starts
InitEngines ==
    { <<>>,
      <<Container(1, {<<"/","a">>}, <<"i","1">>, FALSE)>>,
      <<Container(1, {<<"/","a">>}, <<"i","2">>, TRUE)>>,
      <<Container(1, {<<"a">>, <<"/","a","b","c">>}, <<"i","1">>, FALSE),
        Container(2, {<<"/","x">>, <<"/","a","b">>}, <<"i","1">>, FALSE)>> }

\* lists only a daemon without unique names can hold
InitEnginesDup ==
    { <<Container(1, {<<"/","b">>}, <<"i","1">>, FALSE),
        Container(2, {<<"/","a">>}, <<"i","1">>, FALSE),
        Container(3, {<<"/","a">>}, <<"i","2">>, TRUE)>> }

----------------------------------------------------------------------------
(* run_container, one action per engine round trip                          *)

Init ==
    /\ unique \in BOOLEAN
    /\ containers \in (IF unique THEN InitEngines ELSE InitEngines \cup InitEnginesDup)
    /\ pc = [p \in Procs |-> "idle"]
    /\ conf = [p \in Procs |-> None]
    /\ container_id = [p \in Procs |-> None]
    /\ result = [p \in Procs |-> None]
    /\ calls = [p \in Procs |-> <<>>]
    /\ runs = [p \in Procs |-> 0]
    /\ engine0 = containers
    /\ overlap = FALSE
    /\ convErr = None
    /\ convOut = None
    /\ createConf = None
    /\ createOut = None

RECURSIVE SumRuns(_)
SumRuns(S) ==
    IF S = {} THEN 0
    ELSE LET p == CHOOSE q \in S : TRUE IN runs[p] + SumRuns(S \ {p})

\* the HTTP layer calls run_container(c)
Invoke(p, c) ==
    /\ pc[p] \in {"idle", "done"}
    /\ SumRuns(Procs) < MaxRuns
    /\ runs' = [runs EXCEPT ![p] = @ + 1]
    /\ pc' = [pc EXCEPT ![p] = "find"]
    /\ conf' = [conf EXCEPT ![p] = c]
    /\ container_id' = [container_id EXCEPT ![p] = None]
    /\ result' = [result EXCEPT ![p] = None]
    /\ calls' = [calls EXCEPT ![p] = <<>>]
    /\ overlap' = (overlap \/ \E q \in Procs \ {p} :
                                 /\ pc[q] \in {"find", "create", "start"}
                                 /\ conf[q].name = c.name)
    /\ UNCHANGED <<containers, unique, engine0, convVars, createVars>>

ListArg == [all |-> TRUE]

\* line 192 with the first TODO of line 193 carried out: a found container
\* that is running ends the call with an error instead of being started
ListOk_running_error(p) ==
    /\ pc[p] = "find"
    /\ LET list_results == EngineList(containers, ListArg)
           found == find_container(list_results, conf[p])
           nxt == after_find(found)
           is_running == /\ found.some
                         /\ \E i \in 1..Len(list_results) :
                               /\ list_results[i].id = found.val
                               /\ list_results[i].running
       IN /\ pc' = [pc EXCEPT ![p] = IF is_running THEN "done" ELSE nxt.pc]
          /\ container_id' = [container_id EXCEPT ![p] = nxt.id]
          /\ result' = [result EXCEPT ![p] =
                           IF is_running
                           THEN Some(Err(ContainerRunError("Other", <<>>)))
                           ELSE @]
          /\ calls' = [calls EXCEPT ![p] =
                          Append(@, Call("list", ListArg, Ok(list_results)))]
    /\ UNCHANGED <<containers, unique, engine0, overlap, conf, runs, convVars, createVars>>

\* line 192 with the configuration kept in a field of the shared runner, which
\* the latest request overwrites
ListOk_shared(p) ==
    /\ pc[p] = "find"
    /\ LET others == {q \in Procs \ {p} : pc[q] \in {"find", "create", "start"}}
           shared == IF others = {} THEN conf[p]
                     ELSE conf[CHOOSE q \in others : TRUE]
           list_results == EngineList(containers, ListArg)
           nxt == after_find(find_container(list_results, shared))
       IN /\ pc' = [pc EXCEPT ![p] = nxt.pc]
          /\ container_id' = [container_id EXCEPT ![p] = nxt.id]
          /\ calls' = [calls EXCEPT ![p] =
                          Append(@, Call("list", ListArg, Ok(list_results)))]
    /\ UNCHANGED <<containers, unique, engine0, overlap, conf, result, runs,
                   convVars, createVars>>

\* line 192, list_containers succeeded
ListOk(p) ==
    /\ pc[p] = "find"
    /\ LET list_results == EngineList(containers, ListArg)
           nxt == after_find(find_container(list_results, conf[p]))
       IN /\ pc' = [pc EXCEPT ![p] = nxt.pc]
          /\ container_id' = [container_id EXCEPT ![p] = nxt.id]
          /\ calls' = [calls EXCEPT ![p] =
                          Append(@, Call("list", ListArg, Ok(list_results)))]
    /\ UNCHANGED <<containers, unique, engine0, overlap, conf, result, runs, convVars, createVars>>

\* line 192 re-issuing the list call after a failure
ListErr_retry(p, e) ==
    /\ pc[p] = "find"
    /\ calls' = [calls EXCEPT ![p] = Append(@, Call("list", ListArg, Err(e)))]
    /\ UNCHANGED <<pc, result, containers, unique, engine0, overlap, conf, container_id, runs,
                   convVars, createVars>>

\* line 192, list_containers failed
ListErr(p, e) ==
    /\ pc[p] = "find"
    /\ pc' = [pc EXCEPT ![p] = "done"]
    /\ result' = [result EXCEPT ![p] = propagate(find_container_err(e))]
    /\ calls' = [calls EXCEPT ![p] = Append(@, Call("list", ListArg, Err(e)))]
    /\ UNCHANGED <<containers, unique, engine0, overlap, conf, container_id, runs, convVars, createVars>>

\* line 197, create_container succeeded
CreateOk(p, order) ==
    /\ pc[p] = "create"
    /\ ~(unique /\ NameTaken(containers, conf[p].name))
    /\ LET args == create_container(conf[p], order)
           results == [id |-> Len(containers) + 1]
           nxt == after_create(results)
       IN /\ containers' = EngineCreate(containers, args)
          /\ pc' = [pc EXCEPT ![p] = nxt.pc]
          /\ container_id' = [container_id EXCEPT ![p] = nxt.id]
          /\ calls' = [calls EXCEPT ![p] = Append(@, Call("create", args, Ok(results)))]
    /\ UNCHANGED <<unique, engine0, overlap, conf, result, runs, convVars, createVars>>

\* line 197 falling back to starting the container of that name when the
\* create call fails and such a container is listed
CreateErr_fallback(p, order, e) ==
    /\ pc[p] = "create"
    /\ LET again == find_container(containers, conf[p])
       IN /\ pc' = [pc EXCEPT ![p] = IF again.some THEN "start" ELSE "done"]
          /\ container_id' = [container_id EXCEPT ![p] = again]
          /\ result' = [result EXCEPT ![p] = IF again.some THEN @ ELSE propagate(e)]
    /\ calls' = [calls EXCEPT ![p] =
                    Append(@, Call("create", create_container(conf[p], order), Err(e)))]
    /\ UNCHANGED <<containers, unique, engine0, overlap, conf, runs, convVars, createVars>>

\* line 197, create_container failed
CreateErr(p, order, e) ==
    /\ pc[p] = "create"
    /\ pc' = [pc EXCEPT ![p] = "done"]
    /\ result' = [result EXCEPT ![p] = propagate(e)]
    /\ calls' = [calls EXCEPT ![p] =
                    Append(@, Call("create", create_container(conf[p], order), Err(e)))]
    /\ UNCHANGED <<containers, unique, engine0, overlap, conf, container_id, runs, convVars, createVars>>

\* line 199, start_container succeeded
StartOk(p) ==
    /\ pc[p] = "start"
    /\ container_id[p].val \in Ids(containers)
    /\ containers' = EngineStart(containers, container_id[p].val)
    /\ pc' = [pc EXCEPT ![p] = "done"]
    /\ result' = [result EXCEPT ![p] = Some(Ok(Unit))]
    /\ calls' = [calls EXCEPT ![p] = Append(@, Call("start", container_id[p].val, Ok(Unit)))]
    /\ UNCHANGED <<unique, engine0, overlap, conf, container_id, runs, convVars, createVars>>

\* line 199 followed by removing the container again after a failed start
StartErr_rollback(p, e) ==
    /\ pc[p] = "start"
    /\ pc' = [pc EXCEPT ![p] = "done"]
    /\ result' = [result EXCEPT ![p] = propagate(e)]
    /\ calls' = [calls EXCEPT ![p] = Append(@, Call("start", container_id[p].val, Err(e)))]
    /\ containers' = SelectSeq(containers, LAMBDA c : c.id # container_id[p].val)
    /\ UNCHANGED <<unique, engine0, overlap, conf, container_id, runs, convVars, createVars>>

\* line 199 re-issuing the start call after a failure
StartErr_retry(p, e) ==
    /\ pc[p] = "start"
    /\ calls' = [calls EXCEPT ![p] = Append(@, Call("start", container_id[p].val, Err(e)))]
    /\ UNCHANGED <<pc, result, containers, unique, engine0, overlap, conf,
                   container_id, runs, convVars, createVars>>

\* line 199, start_container failed
StartErr(p, e) ==
    /\ pc[p] = "start"
    /\ pc' = [pc EXCEPT ![p] = "done"]
    /\ result' = [result EXCEPT ![p] = propagate(e)]
    /\ calls' = [calls EXCEPT ![p] = Append(@, Call("start", container_id[p].val, Err(e)))]
    /\ UNCHANGED <<containers, unique, engine0, overlap, conf, container_id, runs, convVars, createVars>>

\* the rejection the daemon answers request p's create with, if it rejects it
Rejections(p) ==
    IF pc[p] = "create" /\ unique /\ NameTaken(containers, conf[p].name)
    THEN {RejectionError} ELSE {}

\* the map iteration orders request p may see when it builds its create call
CreateOrders(p) == IF pc[p] = "create" THEN ConfOrders(conf[p]) ELSE {}

Next ==
    \/ \E p \in Procs, c \in RunConfs : Invoke(p, c)
    \/ \E p \in Procs : ListOk(p)
    \/ \E p \in Procs, e \in EngineErrors : ListErr(p, e)
    \/ \E p \in Procs : \E order \in CreateOrders(p) : CreateOk(p, order)
    \/ \E p \in Procs : \E e \in EngineErrors \cup Rejections(p) :
          \E order \in CreateOrders(p) : CreateErr(p, order, e)
    \/ \E p \in Procs : StartOk(p)
    \/ \E p \in Procs, e \in EngineErrors : StartErr(p, e)

Spec == Init /\ [][Next]_vars

\* the daemon answers the pending call of request p
EngineStep(p) ==
    \/ ListOk(p)
    \/ \E e \in EngineErrors : ListErr(p, e)
    \/ \E order \in CreateOrders(p) : CreateOk(p, order)
    \/ \E e \in EngineErrors \cup Rejections(p) :
          \E order \in CreateOrders(p) : CreateErr(p, order, e)
    \/ StartOk(p)
    \/ \E e \in EngineErrors : StartErr(p, e)

\* run_container under a daemon that answers every call
FairSpec == Spec /\ \A p \in Procs : WF_vars(EngineStep(p))

----------------------------------------------------------------------------
(* The conversion on its own: any engine error in, its ContainerRunError out *)

InitRunnerIdle ==
    /\ containers = <<>>
    /\ unique = TRUE
    /\ pc = [p \in Procs |-> "idle"]
    /\ conf = [p \in Procs |-> None]
    /\ container_id = [p \in Procs |-> None]
    /\ result = [p \in Procs |-> None]
    /\ calls = [p \in Procs |-> <<>>]
    /\ runs = [p \in Procs |-> 0]
    /\ engine0 = <<>>
    /\ overlap = FALSE

InitConv ==
    /\ InitRunnerIdle
    /\ convErr \in {Some(e) : e \in Errors}
    /\ convOut = None
    /\ createConf = None
    /\ createOut = None

Convert ==
    /\ convErr.some
    /\ ~convOut.some
    /\ convOut' = Some(ContainerRunError_from(convErr.val))
    /\ UNCHANGED <<convErr, runnerVars, createVars>>

NextConv == Convert

SpecConv == InitConv /\ [][NextConv]_vars

----------------------------------------------------------------------------
(* The create-argument translation on its own: any configuration in, the    *)
(* arguments of the engine's create call out                                *)

EnvKeys == {<<"A">>, <<"B">>, <<"A","=">>}

EnvVals == {<<"1">>, <<"=","1">>}

Environments ==
    {None} \cup {Some(hm) : hm \in UNION {[K -> EnvVals] : K \in SUBSET EnvKeys}}

Mounts ==
    {StorageMount(TxtDataPath, TxtAppPath, ro) : ro \in BOOLEAN}
        \cup {StorageMount(TxtDataPath \o <<"/">>, <<"l">>, FALSE)}

Storages ==
    {None, Some(<<>>)} \cup {Some(<<m>>) : m \in Mounts}
        \cup {Some(<<m1, m2>>) : m1 \in Mounts, m2 \in Mounts}

PortLists == {None, Some(<<80>>), Some(<<80, 443>>)}

CreateConfs ==
    {ContainerConfiguration(<<"i","1">>, n, h, d, po, st, env) :
        n \in Names, h \in {None, Some(TxtHost)}, d \in {None, Some(TxtDomain)},
        po \in PortLists, st \in Storages, env \in Environments}

InitCreate ==
    /\ InitRunnerIdle
    /\ convErr = None
    /\ convOut = None
    /\ createConf \in {Some(c) : c \in CreateConfs}
    /\ createOut = None

Translate(order) ==
    /\ createConf.some
    /\ ~createOut.some
    /\ createOut' = Some(create_container(createConf.val, order))
    /\ UNCHANGED <<createConf, runnerVars, convVars>>

NextCreate == \E order \in ConfOrders(createConf.val) : Translate(order)

SpecCreate == InitCreate /\ [][NextCreate]_vars

----------------------------------------------------------------------------
(* Reading the call log of a request                                        *)

Listed(p) == calls[p][1].res.val

HasListed(p) ==
    /\ Len(calls[p]) >= 1
    /\ calls[p][1].op = "list"
    /\ calls[p][1].res.ok

\* the list call of p returned a container named "/" + name
ListedPresent(p) ==
    /\ HasListed(p)
    /\ \E i \in 1..Len(Listed(p)) : EngineName(conf[p].name) \in Listed(p)[i].names

\* the list call of p returned no container named "/" + name
ListedAbsent(p) ==
    /\ HasListed(p)
    /\ \A i \in 1..Len(Listed(p)) : EngineName(conf[p].name) \notin Listed(p)[i].names

OpsOf(p) == [i \in 1..Len(calls[p]) |-> calls[p][i].op]

Returned(p) == pc[p] = "done"

ReturnedErr(p) == Returned(p) /\ result[p].some /\ ~result[p].val.ok

ReturnedOk(p) == Returned(p) /\ result[p].some /\ result[p].val.ok

----------------------------------------------------------------------------
(* C1: when the list call returns a container whose names include           *)
(* "/" + C.name, run_container(C) issues no create call: its engine calls   *)
(* are the list call and then one start call, on the id of a listed         *)
(* container of that name.                                                  *)
C1_IdempotentLookup ==
    \A p \in Procs :
        ListedPresent(p) =>
            /\ pc[p] \in {"start", "done"}
            /\ \A i \in 1..Len(calls[p]) : calls[p][i].op # "create"
            /\ Len(calls[p]) <= 2
            /\ Returned(p) => Len(calls[p]) = 2
            /\ Len(calls[p]) = 2 =>
                  /\ calls[p][2].op = "start"
                  /\ \E j \in 1..Len(Listed(p)) :
                        /\ Listed(p)[j].id = calls[p][2].arg
                        /\ EngineName(conf[p].name) \in Listed(p)[j].names

C1_Witness ==
    \E p \in Procs :
        /\ ListedPresent(p)
        /\ Returned(p)
        /\ OpsOf(p) = <<"list", "start">>

(* C2: when the list call returns no container named "/" + C.name, a start  *)
(* call is issued only after a create call that returned successfully, and  *)
(* with exactly the id that create call returned.                           *)
C2_CreateThenStart ==
    \A p \in Procs :
        ListedAbsent(p) =>
            /\ \A i \in 1..Len(calls[p]) :
                  calls[p][i].op = "start" =>
                     /\ i = 3
                     /\ calls[p][2].op = "create"
                     /\ calls[p][2].res.ok
                     /\ calls[p][3].arg = calls[p][2].res.val.id
            /\ pc[p] = "start" =>
                  /\ Len(calls[p]) = 2
                  /\ calls[p][2].op = "create"
                  /\ calls[p][2].res.ok
                  /\ container_id[p] = Some(calls[p][2].res.val.id)

C2_Witness ==
    \E p \in Procs :
        /\ ListedAbsent(p)
        /\ OpsOf(p) = <<"list", "create", "start">>
        /\ calls[p][3].arg = calls[p][2].res.val.id

(* C3: a failed list call is followed by no create and no start, a failed   *)
(* create call by no start; after a failed list, create or start the call   *)
(* returns a ContainerRunError; Ok(()) is returned only when the start call *)
(* succeeded.                                                               *)
C3_ShortCircuit ==
    \A p \in Procs :
        /\ \A i \in 1..Len(calls[p]) :
              ~calls[p][i].res.ok =>
                 /\ i = Len(calls[p])
                 /\ ReturnedErr(p)
                 /\ result[p].val.err.reason \in StartFailureReason
        /\ Returned(p) => result[p].some
        /\ ReturnedOk(p) =>
              /\ result[p].val = Ok(Unit)
              /\ calls[p][Len(calls[p])].op = "start"
              /\ calls[p][Len(calls[p])].res.ok
              /\ \A i \in 1..Len(calls[p]) : calls[p][i].res.ok

C3_Witness ==
    \E p, q \in Procs :
        /\ ReturnedErr(p)
        /\ OpsOf(p) = <<"list", "create">>
        /\ ReturnedErr(q)
        /\ OpsOf(q) = <<"list">>

(* C4: the decision to create rests on the list result alone: a request     *)
(* whose list call returned no container of its name issues its create call *)
(* next, whatever other requests have done to the daemon meanwhile; so two  *)
(* concurrent requests with one name can both list "absent" and both issue  *)
(* create (the witness: both are in flight and the daemon now holds two     *)
(* containers created under that name).                                     *)
C4_CheckThenAct ==
    \A p \in Procs :
        ListedAbsent(p) =>
            \/ pc[p] = "create" /\ Len(calls[p]) = 1
            \/ Len(calls[p]) >= 2 /\ calls[p][2].op = "create"

C4_Witness ==
    \E p, q \in Procs :
        /\ p # q
        /\ pc[p] = "start" /\ pc[q] = "start"
        /\ conf[p].name = conf[q].name
        /\ ListedAbsent(p) /\ ListedAbsent(q)
        /\ OpsOf(p) = <<"list", "create">> /\ OpsOf(q) = <<"list", "create">>
        /\ calls[p][2].res.val.id # calls[q][2].res.val.id
        /\ {calls[p][2].res.val.id, calls[q][2].res.val.id} \subseteq Ids(containers)

\* the request created a container and its start call then failed
CreatedThenStartFailed(p) ==
    /\ Len(calls[p]) = 3
    /\ calls[p][2].op = "create" /\ calls[p][2].res.ok
    /\ calls[p][3].op = "start" /\ ~calls[p][3].res.ok

CreatedId(p) == calls[p][2].res.val.id

C5_State ==
    \A p \in Procs :
        CreatedThenStartFailed(p) =>
            /\ ReturnedErr(p)
            /\ CreatedId(p) \in Ids(containers)
            /\ (\A q \in Procs \ {p} : runs[q] = 0) =>
                  \A i \in 1..Len(containers) :
                      containers[i].id = CreatedId(p) => ~containers[i].running

C5_Step ==
    \A p \in Procs :
        /\ (pc[p] = "start" /\ pc'[p] = "done" /\ ~result'[p].val.ok) =>
              containers' = containers
        /\ (CreatedThenStartFailed(p) /\ pc'[p] = "done") =>
              calls'[p] = calls[p]

C6_NoRetries ==
    \A p \in Procs :
        /\ OpsOf(p) \in {<<>>, <<"list">>, <<"list", "create">>, <<"list", "start">>,
                         <<"list", "create", "start">>}
        /\ pc[p] \in {"create", "start", "done"} => Len(calls[p]) >= 1
        /\ pc[p] = "find" => calls[p] = <<>>
        /\ \A i \in 1..Len(calls[p]) : ~calls[p][i].res.ok => i = Len(calls[p])

C6_Witness ==
    \E p, q \in Procs :
        /\ Returned(p) /\ OpsOf(p) = <<"list", "create", "start">>
        /\ ~calls[p][3].res.ok
        /\ Returned(q) /\ OpsOf(q) = <<"list">>
        /\ ~calls[q][1].res.ok

----------------------------------------------------------------------------
(* Claims about the conversion (SpecConv)                                   *)

\* the texts of CauseTexts that hold "permission denied" in some letter case
PermissionDeniedTexts ==
    {TxtConnectPermissionDenied, TxtOsPermissionDenied,
     TxtUpperPermissionDenied, TxtMixedPermissionDenied}

\* the permission-denied rule: a transport error whose source text holds it
MatchesPermissionRule(err) ==
    /\ err.kind = "HyperResponseError"
    /\ err.err.source.some
    /\ err.err.source.val.text \in PermissionDeniedTexts

Converted == convErr.some /\ convOut.some

(* C7: a transport error (HyperResponseError) whose source text contains    *)
(* "permission denied" in any letter case, with any text around it,         *)
(* converts to reason PermissionDenied with the source's description as     *)
(* the message.                                                             *)
C7_PermissionDenied ==
    (Converted /\ MatchesPermissionRule(convErr.val)) =>
        convOut.val = [reason |-> "PermissionDenied",
                       message |-> convErr.val.err.source.val.description]

C7_Witness ==
    /\ Converted
    /\ convErr.val.kind = "HyperResponseError"
    /\ convErr.val.err.source.some
    /\ convErr.val.err.source.val.text = TxtMixedPermissionDenied
    /\ convErr.val.err.source.val.description # convErr.val.err.source.val.text
    /\ convOut.val.reason = "PermissionDenied"

(* C8 as stated: an error outside the permission-denied rule converts to    *)
(* reason Other, with the root cause's text as the message when a root      *)
(* cause is present and otherwise the original error's text (the text of    *)
(* the engine error or of the transport error it wraps).                    *)
C8_Original ==
    (Converted /\ ~MatchesPermissionRule(convErr.val)) =>
        /\ convOut.val.reason = "Other"
        /\ IF convErr.val.err.source.some
           THEN convOut.val.message = convErr.val.err.source.val.text
           ELSE convOut.val.message \in {convErr.val.text, convErr.val.err.text}

(* C8 amended: an error outside the permission-denied rule converts to      *)
(* reason Other; the message is the source's text for a transport error     *)
(* with a source, the transport error's own text for a transport error      *)
(* without a source, and the top-level error's text for every other kind.   *)
C8_Fallback ==
    (Converted /\ ~MatchesPermissionRule(convErr.val)) =>
        /\ convOut.val.reason = "Other"
        /\ convOut.val.message =
              IF convErr.val.kind = "HyperResponseError"
              THEN IF convErr.val.err.source.some
                   THEN convErr.val.err.source.val.text
                   ELSE convErr.val.err.text
              ELSE convErr.val.text

C8_Witness ==
    /\ Converted
    /\ convErr.val.kind = "IOError"
    /\ convErr.val.err.source.some
    /\ convErr.val.err.source.val.text = TxtOsPermissionDenied
    /\ convOut.val = [reason |-> "Other", message |-> convErr.val.text]

----------------------------------------------------------------------------
(* C9: every error run_container returns, whichever of list, create and     *)
(* start failed, has reason PermissionDenied or Other.                      *)
C9_ReachableReasons ==
    \A p \in Procs :
        (result[p].some /\ ~result[p].val.ok) =>
            result[p].val.err.reason \in {"PermissionDenied", "Other"}

C9_Witness ==
    \E p, q \in Procs :
        /\ ReturnedErr(p) /\ result[p].val.err.reason = "PermissionDenied"
        /\ ReturnedErr(q) /\ result[q].val.err.reason = "Other"
        /\ OpsOf(p) = <<"list", "create", "start">>

----------------------------------------------------------------------------
(* Claims about the create arguments (SpecCreate)                           *)

Translated == createConf.some /\ createOut.some

EnvOut == createOut.val.config.env

(* C10: the env list of the create call holds one string "k=v" per entry of *)
(* the environment mapping and nothing else: it is as long as the mapping   *)
(* has entries, every element is "k=v" of an entry, and every entry's       *)
(* string occurs as often as entries render to it; without an environment   *)
(* mapping no env list is passed.                                           *)
C10_EnvFlattening ==
    Translated =>
        LET e == createConf.val.environment IN
        IF ~e.some THEN EnvOut = None
        ELSE LET hm == e.val
                 str(k) == k \o <<"=">> \o hm[k]
             IN /\ EnvOut.some
                /\ Len(EnvOut.val) = Cardinality(DOMAIN hm)
                /\ \A i \in 1..Len(EnvOut.val) :
                      \E k \in DOMAIN hm : EnvOut.val[i] = str(k)
                /\ \A k \in DOMAIN hm :
                      Cardinality({i \in 1..Len(EnvOut.val) : EnvOut.val[i] = str(k)})
                          = Cardinality({k2 \in DOMAIN hm : str(k2) = str(k)})

C10_Witness ==
    /\ Translated
    /\ createConf.val.environment.some
    /\ DOMAIN createConf.val.environment.val = {<<"A">>, <<"B">>}
    /\ EnvOut = Some(<<<<"B","=","1">>, <<"A","=","=","1">>>>)

BindsOut == createOut.val.config.host_config

\* the bind string of one StorageMount
BindOf(m) == IF m.ro THEN m.host \o m.local \o <<":","r","o">> ELSE m.host \o m.local

(* C11: the bind list of the create call has one entry per StorageMount, in *)
(* the same order, each host followed directly by local and then by ":ro"   *)
(* exactly when ro is true; without a storage field no host configuration   *)
(* is passed.                                                               *)
C11_StorageTranslation ==
    Translated =>
        LET st == createConf.val.storage IN
        IF ~st.some THEN BindsOut = None
        ELSE /\ BindsOut.some
             /\ BindsOut.val.binds.some
             /\ Len(BindsOut.val.binds.val) = Len(st.val)
             /\ \A i \in 1..Len(st.val) : BindsOut.val.binds.val[i] = BindOf(st.val[i])

C11_Witness ==
    /\ Translated
    /\ createConf.val.storage =
          Some(<<StorageMount(TxtDataPath, TxtAppPath, TRUE),
                 StorageMount(TxtDataPath, TxtAppPath, FALSE)>>)
    /\ BindsOut = Some([binds |-> Some(<<<<"/","d","/","l",":","r","o">>,
                                         <<"/","d","/","l">>>>)])

(* C18: the ports field reaches no engine call: the create arguments hold   *)
(* only name, image, env, domainname, hostname and host_config, and they    *)
(* are the arguments the same configuration with any other ports value      *)
(* yields.                                                                  *)
C18_PortsIgnored ==
    Translated =>
        /\ DOMAIN createOut.val = {"options", "config"}
        /\ DOMAIN createOut.val.options.val = {"name"}
        /\ DOMAIN createOut.val.config =
              {"image", "env", "domainname", "hostname", "host_config"}
        /\ \A po \in PortLists :
              \E order \in ConfOrders(createConf.val) :
                  create_container([createConf.val EXCEPT !.ports = po], order)
                      = createOut.val

C18_Witness ==
    /\ Translated
    /\ createConf.val.ports = Some(<<80, 443>>)
    /\ createConf.val.storage.some
    /\ createConf.val.environment.some
    /\ createOut.val.config.image.some

----------------------------------------------------------------------------
C17_NonTransport ==
    (Converted /\ convErr.val.kind # "HyperResponseError") =>
        convOut.val = [reason |-> "Other", message |-> convErr.val.text]

C17_Witness ==
    /\ Converted
    /\ convErr.val.kind = "IOError"
    /\ convErr.val.text = TxtTopPermission
    /\ convErr.val.err.source.some
    /\ convErr.val.err.source.val.text = TxtConnectPermissionDenied
    /\ convOut.val.reason = "Other"

----------------------------------------------------------------------------
(* Claims about the lookup and about concurrent requests (Spec)             *)

\* the positions of list cs that hold a container named exactly "/" + name
MatchesIn(cs, name) == {j \in 1..Len(cs) : EngineName(name) \in cs[j].names}

\* the id of the first container of cs named exactly "/" + name
FirstMatchId(cs, name) ==
    IF MatchesIn(cs, name) = {} THEN None
    ELSE Some(cs[CHOOSE j \in MatchesIn(cs, name) :
                    \A k \in 1..(j - 1) : k \notin MatchesIn(cs, name)].id)

\* what run_container returns after an engine call with result res
ResultOf(res) ==
    IF res.ok THEN Some(Ok(Unit)) ELSE Some(Err(ContainerRunError_from(res.err)))

(* C15: the list call asks for stopped containers too; the lookup yields    *)
(* the id of the first listed container one of whose names equals           *)
(* "/" + conf.name, and nothing when no listed name equals it; a failed     *)
(* list call hands on the engine error it got.                              *)
C15_FindSemantics ==
    \A p \in Procs :
        /\ Len(calls[p]) >= 1 => calls[p][1].op = "list" /\ calls[p][1].arg.all
        /\ HasListed(p) =>
              LET f == FirstMatchId(Listed(p), conf[p].name) IN
              /\ Len(calls[p]) = 1 =>
                    /\ container_id[p] = f
                    /\ pc[p] = IF f.some THEN "start" ELSE "create"
              /\ Len(calls[p]) >= 2 =>
                    IF f.some
                    THEN calls[p][2].op = "start" /\ calls[p][2].arg = f.val
                    ELSE calls[p][2].op = "create"
        /\ (Len(calls[p]) >= 1 /\ ~calls[p][1].res.ok) =>
              result[p] = ResultOf(calls[p][1].res)

C15_Witness ==
    \E p \in Procs :
        /\ HasListed(p)
        /\ OpsOf(p) = <<"list", "start">>
        /\ MatchesIn(Listed(p), conf[p].name) = {2, 3}
        /\ Listed(p)[2].id = calls[p][2].arg
        /\ Listed(p)[3].id # calls[p][2].arg

(* C14: when a container named "/" + conf.name is listed, start is issued   *)
(* on its id whether or not it is running and whatever its image, and       *)
(* run_container returns the converted result of that start call.           *)
C14_StartUnconditional ==
    \A p \in Procs :
        ListedPresent(p) =>
            \/ pc[p] = "start" /\ Len(calls[p]) = 1
            \/ /\ pc[p] = "done"
               /\ Len(calls[p]) = 2
               /\ calls[p][2].op = "start"
               /\ Some(calls[p][2].arg) = FirstMatchId(Listed(p), conf[p].name)
               /\ result[p] = ResultOf(calls[p][2].res)

C14_Witness ==
    \E p \in Procs :
        /\ runs[p] = 2
        /\ ListedPresent(p)
        /\ Returned(p)
        /\ OpsOf(p) = <<"list", "start">>
        /\ \E j \in 1..Len(Listed(p)) :
              /\ Listed(p)[j].id = calls[p][2].arg
              /\ Listed(p)[j].running
              /\ Listed(p)[j].image # conf[p].image

\* request p is the only invocation of its slot and every other slot has
\* served at most one request, with another name
OnlyOtherNames(p) ==
    /\ runs[p] = 1
    /\ \A q \in Procs \ {p} :
          runs[q] = 0 \/ (runs[q] = 1 /\ conf[q].name # conf[p].name)

C12_State ==
    \A p \in Procs :
        (OnlyOtherNames(p) /\ HasListed(p)) =>
            LET alone == FirstMatchId(engine0, conf[p].name) IN
            /\ FirstMatchId(Listed(p), conf[p].name) = alone
            /\ IF alone.some
               THEN /\ Len(calls[p]) <= 2
                    /\ Len(calls[p]) = 2 =>
                          calls[p][2].op = "start" /\ calls[p][2].arg = alone.val
               ELSE /\ Len(calls[p]) <= 3
                    /\ Len(calls[p]) >= 2 =>
                          /\ calls[p][2].op = "create"
                          /\ calls[p][2].arg.options.val.name = conf[p].name
                    /\ Len(calls[p]) = 3 =>
                          /\ calls[p][3].op = "start"
                          /\ calls[p][3].arg = calls[p][2].res.val.id
            /\ Returned(p) => result[p] = ResultOf(calls[p][Len(calls[p])].res)
            /\ ~Returned(p) => \A i \in 1..Len(calls[p]) : calls[p][i].res.ok

C12_Step ==
    \A p, q \in Procs :
        (p # q /\ <<pc[q], calls[q], conf[q]>> # <<pc'[q], calls'[q], conf'[q]>>) =>
            <<pc[p], conf[p], container_id[p], result[p], calls[p], runs[p]>>
                = <<pc'[p], conf'[p], container_id'[p], result'[p], calls'[p], runs'[p]>>

(* C12: a request served next to requests with other names issues the       *)
(* engine operations, and returns the result, it would issue and return     *)
(* against the daemon's initial state alone (for the same answers of the    *)
(* daemon), and a step of one request changes nothing of another request.   *)
C12_Independence == [](C12_State) /\ [][C12_Step]_vars

C12_Witness ==
    \E p, q \in Procs :
        /\ p # q
        /\ OnlyOtherNames(p) /\ OnlyOtherNames(q)
        /\ runs[q] = 1
        /\ OpsOf(p) = <<"list", "create", "start">>
        /\ OpsOf(q) = <<"list", "create", "start">>
        /\ ListedAbsent(p) /\ Len(Listed(p)) > Len(engine0)
        /\ ReturnedOk(p)

\* the create call of p was rejected because the name was taken
CreateRejected(p) ==
    \E i \in 1..Len(calls[p]) :
        /\ calls[p][i].op = "create"
        /\ ~calls[p][i].res.ok
        /\ calls[p][i].res.err = RejectionError

CreateSucceeded(p) ==
    \E i \in 1..Len(calls[p]) : calls[p][i].op = "create" /\ calls[p][i].res.ok

(* C13: with a daemon that rejects a create for a taken name, no two        *)
(* containers ever share a name, no two requests with one name both see     *)
(* their create succeed, and a request whose create is rejected returns a   *)
(* ContainerRunError with reason Other and issues no start.                 *)
C13_UniqueNameRace ==
    unique =>
        /\ \A i, j \in 1..Len(containers) :
              i # j => containers[i].names \cap containers[j].names = {}
        /\ \A p, q \in Procs :
              (p # q /\ CreateSucceeded(p) /\ CreateSucceeded(q)) =>
                  conf[p].name # conf[q].name
        /\ \A p \in Procs :
              CreateRejected(p) =>
                  /\ ReturnedErr(p)
                  /\ result[p].val.err.reason = "Other"
                  /\ \A i \in 1..Len(calls[p]) : calls[p][i].op # "start"

C13_Witness ==
    \E p, q \in Procs :
        /\ unique
        /\ p # q
        /\ runs[p] = 1 /\ runs[q] = 1
        /\ conf[p].name = conf[q].name
        /\ MatchesIn(engine0, conf[p].name) = {}
        /\ ListedAbsent(p) /\ ListedAbsent(q)
        /\ CreateSucceeded(p)
        /\ CreateRejected(q)
        /\ ReturnedErr(q)

\* the containers created since the agent started, under "/" + name
CreatedAs(name) ==
    {i \in (Len(engine0) + 1)..Len(containers) : EngineName(name) \in containers[i].names}

C19_State ==
    ~overlap => \A n \in Names : Cardinality(CreatedAs(n)) <= 1

C19_Step ==
    \A p \in Procs :
        (~overlap /\ pc[p] = "create" /\ calls'[p] # calls[p]) =>
            ~NameTaken(containers, conf[p].name)

(* C19: as long as no two requests with one name have been in flight at     *)
(* once, at most one container is ever created under a name and a create    *)
(* call is issued only while the daemon lists no container of that name,    *)
(* whatever the start calls answered.                                       *)
C19_NoRecreate == [](C19_State) /\ [][C19_Step]_vars

C19_Witness ==
    \E p \in Procs :
        /\ ~overlap
        /\ runs[p] = 2
        /\ Returned(p)
        /\ OpsOf(p) = <<"list", "start">>
        /\ calls[p][2].arg > Len(engine0)
        /\ ~calls[p][2].res.ok

InFlight(p) == pc[p] \in {"find", "create", "start"}

C20_Bounded ==
    \A p \in Procs :
        /\ Len(calls[p]) <= 3
        /\ Returned(p) =>
              /\ result[p].some
              /\ \/ result[p].val = Ok(Unit)
                 \/ /\ ~result[p].val.ok
                    /\ result[p].val.err.reason \in StartFailureReason
        /\ InFlight(p) => ENABLED EngineStep(p)

(* C20: under a daemon that answers every call, every invocation returns,   *)
(* after at most three engine calls, Ok(()) or a ContainerRunError; while   *)
(* it is in flight its next step never depends on another request.          *)
C20_Termination ==
    /\ [](C20_Bounded)
    /\ \A p \in Procs : InFlight(p) ~> Returned(p)

C20_Witness ==
    \E p, q \in Procs :
        /\ p # q
        /\ Returned(p) /\ Len(calls[p]) = 3 /\ ReturnedOk(p)
        /\ Returned(q) /\ ReturnedErr(q)

====
